---- MODULE Spec2Model ----
(***************************************************************************)
(* A model of map.py: the generation of the page (create_map and the       *)
(* functions it calls) and the script the generated page runs in the       *)
(* browser (init, initMapFunctions, switchTileLayer, zoomToLocation,       *)
(* onMapClick, updateZoomIndicator).                                       *)
(*                                                                         *)
(* Numbers: a coordinate is an integer number of degrees; a mean is kept   *)
(* as the pair <<sum, count>>.  Leaflet and the browser are modelled by    *)
(* their documented contracts: eachLayer visits the layers attached to the *)
(* map, removeLayer/addTo detach/attach one layer, flyTo retargets the     *)
(* running animation and ends with zoomend, a base-layer radio button of   *)
(* the layer control leaves exactly the chosen base layer attached, a      *)
(* promise settles once, DOMContentLoaded precedes load.                   *)
(***************************************************************************)
EXTENDS Integers, Sequences, FiniteSets, TLC

VARIABLES
    \* ---- the page in the browser
    readyState,      \* document.readyState
    evaluated,       \* the inline scripts the parser has evaluated
    domListeners,    \* listeners of DOMContentLoaded
    loadListeners,   \* listeners of window's load event
    mapCreated,      \* init() has run: the map object exists
    mapLayers,       \* the tile layers attached to the map
    tileLayers,      \* initMapFunctions' lookup table: options.id -> layer
    handlers,        \* the map events that have a handler bound
    exposed,         \* window.zoomToLocation is defined
    initCalls,       \* how often initMapFunctions has been called
    camera,          \* the map's view: [lat, lon, zoom]
    flying,          \* a flyTo animation is running
    flyDest,         \* <<target>> of the last flyTo issued, <<>> before
    zoomIndicator,   \* innerText of #zoom-indicator
    locations,       \* const locations of initMapFunctions
    last,            \* the last event: [op, id, inFlight]
    errors,          \* console.error messages of the last event's handler
    calls,           \* Leaflet calls of the last event's handler, in order
    \* ---- clipboard
    writes,          \* the clipboard writes started, in order
    alerts,          \* the alerts shown, in order
    consoleLog,      \* console.error calls of onMapClick's rejection handler
    clicks,          \* click events the map has dispatched to a bound handler
    \* ---- generation (create_map)
    bookmarks,       \* the input list
    gi,              \* loop index of create_map (0-based)
    features,        \* the features added to the folium map m
    locations_js,    \* the navigation index
    locations_js_str,\* json.dumps(locations_js), as the page's script reads it
    printed,         \* lines written by print
    fetches,         \* requests.get calls made, in order
    genState,        \* "idle" | "running" | "raised" | "returned"
    nav_links,       \* the navigation pane's links
    \* ---- popup content (create_bookmark_content on its own)
    popIn,           \* the content given
    popOut           \* [called, raised, html, fetched]: the call's result

loadVars == <<readyState, evaluated, domListeners, loadListeners, mapCreated,
              handlers, exposed, initCalls>>
mapVars  == <<mapLayers, tileLayers, camera, flying, flyDest, zoomIndicator>>
clipVars == <<writes, alerts, consoleLog, clicks>>
genVars  == <<bookmarks, gi, features, locations_js, locations_js_str, printed,
              fetches, genState, nav_links>>
popVars  == <<popIn, popOut>>
evtVars  == <<last, errors, calls>>
vars == <<loadVars, mapVars, locations, evtVars, clipVars, genVars, popVars>>

----------------------------------------------------------------------------
(* Bounds and program constants *)

NumBookmarks == 2      \* bookmarks of the page in the browser
MaxBookmarks == 2      \* longest bookmark list given to create_map
MaxClicks == 3         \* map clicks whose clipboard writes are followed
MaxLen == 2            \* longest title/text given to create_bookmark_content

DefaultZoom == 13      \* bookmark.get('zoom', 13)
StartZoom == 3         \* create_map(..., zoom=3)
CenterLat == 39        \* create_map(center=[39.54316, -110.38948]), whole degrees
CenterLon == -110

----------------------------------------------------------------------------
(* The page in the browser: data *)

\* The keys of create_map's tile_layers: the four layers given to the map and
\* to the layer control.
RegisteredLayers == {"OpenStreetMap", "Positron", "Dark Matter", "Esri Satellite"}

\* show= of each TileLayer: only Positron is attached when the page starts.
TileLayerShow(name) == name = "Positron"

\* options={'id': ...} of each TileLayer: layer.options.id in the browser.
LayerId(name) == name

\* Tile-layer names a bookmark may carry: two registered ones and one that is
\* not registered.
BookmarkLayers == {"Positron", "OpenStreetMap", "Watercolor"}

\* Zoom levels of the map: the start zoom and the default bookmark zoom.
ZoomLevels == {StartZoom, DefaultZoom}

\* The zoom and tile layer a bookmark of the page may carry: the default zoom
\* with each layer name, and another zoom with the default layer.
BookmarkKinds ==
    ({DefaultZoom} \X BookmarkLayers) \cup {<<StartZoom, "Positron">>}

\* The navigation index the page carries: entry i is anchored at its own
\* place (lat i + 1, lon -(i + 1)).
LocationTables ==
    { [i \in 0 .. NumBookmarks - 1 |->
          [lat |-> <<i + 1, 1>>, lon |-> <<0 - (i + 1), 1>>,
           zoom |-> zl[i][1], tile_layer |-> zl[i][2]]] :
      zl \in [0 .. NumBookmarks - 1 -> BookmarkKinds] }

StartView == [lat |-> <<CenterLat, 1>>, lon |-> <<CenterLon, 1>>, zoom |-> StartZoom]

\* last, after an event that is not a navigation request.
NoEvent == [op |-> "other", id |-> -1, inFlight |-> FALSE]

Range(f) == { f[x] : x \in DOMAIN f }

----------------------------------------------------------------------------
(* The page in the browser: the script *)

\* A zoomend event that reaches no handler.
FireZoomEndUnbound(zoomLevel) == UNCHANGED zoomIndicator

\* updateZoomIndicator: the text shown for the map's zoom.
UpdateZoomIndicator(zoomLevel) == <<"Zoom Level: ", zoomLevel>>

\* A zoomend event: the handler runs if it is bound.
FireZoomEnd(zoomLevel) ==
    zoomIndicator' = IF "zoomend" \in handlers
                     THEN UpdateZoomIndicator(zoomLevel)
                     ELSE zoomIndicator

\* init, the DOMContentLoaded listener of the map's script: creates the map
\* at the start view and renders its children, which attaches the layers shown.
init ==
    /\ mapCreated' = TRUE
    /\ camera' = StartView
    /\ mapLayers' = { l \in RegisteredLayers : TileLayerShow(l) }

\* The table initMapFunctions fills: eachLayer visits the layers attached.
EachLayerTable(layers) ==
    [id \in { LayerId(l) : l \in layers } |->
        CHOOSE l \in layers : LayerId(l) = id]

\* initMapFunctions; with no map yet its first use of the map throws and
\* nothing is bound.
initMapFunctions ==
    /\ initCalls' = initCalls + 1
    /\ IF mapCreated
       THEN /\ tileLayers' = EachLayerTable(mapLayers)
            /\ handlers' = {"click", "zoomend"}
            /\ zoomIndicator' = UpdateZoomIndicator(camera.zoom)
            /\ exposed' = TRUE
       ELSE UNCHANGED <<tileLayers, handlers, zoomIndicator, exposed>>

\* A call of initMapFunctions at once, whatever the document's state.
RegisterAtOnce ==
    /\ initMapFunctions
    /\ UNCHANGED loadListeners

\* The end of the navigation script: run now if the document is complete,
\* on the load event otherwise.
RegisterInitMapFunctions ==
    IF readyState = "complete"
    THEN /\ initMapFunctions
         /\ UNCHANGED loadListeners
    ELSE /\ loadListeners' = loadListeners \cup {"initMapFunctions"}
         /\ UNCHANGED <<initCalls, tileLayers, handlers, zoomIndicator, exposed>>

\* switchTileLayer: what it leaves attached, what it logs, what it calls.
SwitchTileLayer(layers, table, tileName) ==
    LET removed == layers \ Range(table)
        found == tileName \in DOMAIN table
    IN [layers |-> IF found THEN removed \cup {table[tileName]} ELSE removed,
        errors |-> IF found THEN <<>>
                   ELSE << <<"Tile layer ", tileName, " not found.">> >>,
        calls |-> [k \in 1 .. Cardinality(DOMAIN table) |-> "removeLayer"]
                  \o (IF found THEN <<"addTo">> ELSE <<>>)]

\* A zoomToLocation that leaves a running flyTo alone.
ZoomToLocationKeepFirst(id) ==
    IF id \in DOMAIN locations
    THEN LET loc == locations[id]
             sw == SwitchTileLayer(mapLayers, tileLayers, loc.tile_layer)
             dest == [lat |-> loc.lat, lon |-> loc.lon, zoom |-> loc.zoom]
         IN /\ mapLayers' = sw.layers
            /\ errors' = sw.errors
            /\ calls' = sw.calls \o (IF flying THEN <<>> ELSE <<"flyTo">>)
            /\ flyDest' = IF flying THEN flyDest ELSE <<dest>>
            /\ flying' = TRUE
            /\ UNCHANGED <<camera, zoomIndicator>>
    ELSE /\ errors' = <<>>
         /\ calls' = <<>>
         /\ UNCHANGED <<mapLayers, flyDest, flying, camera, zoomIndicator>>

\* zoomToLocation: switch the tile layer, then fly to the bookmark.  flyTo
\* drops the animation that is running and starts one to the new target.
ZoomToLocation(id) ==
    IF id \in DOMAIN locations
    THEN LET loc == locations[id]
             sw == SwitchTileLayer(mapLayers, tileLayers, loc.tile_layer)
             dest == [lat |-> loc.lat, lon |-> loc.lon, zoom |-> loc.zoom]
         IN /\ mapLayers' = sw.layers
            /\ errors' = sw.errors
            /\ calls' = sw.calls \o <<"flyTo">>
            /\ flyDest' = <<dest>>
            /\ flying' = TRUE
            /\ UNCHANGED <<camera, zoomIndicator>>
    ELSE /\ errors' = <<>>
         /\ calls' = <<>>
         /\ UNCHANGED <<mapLayers, flyDest, flying, camera, zoomIndicator>>

----------------------------------------------------------------------------
(* The page in the browser: events *)

Quiet == errors' = <<>> /\ calls' = <<>>

\* The parser evaluates the map's script: it declares the map variable and
\* binds init to DOMContentLoaded.
EvalMapScript ==
    /\ readyState = "loading"
    /\ "map" \notin evaluated
    /\ evaluated' = evaluated \cup {"map"}
    /\ domListeners' = domListeners \cup {"init"}
    /\ last' = NoEvent
    /\ Quiet
    /\ UNCHANGED <<readyState, loadListeners, mapCreated, handlers, exposed,
                   initCalls, mapVars, locations, clipVars, genVars, popVars>>

\* The parser evaluates the navigation script: it defines initMapFunctions
\* and registers it.
EvalNavScript ==
    /\ readyState = "loading"
    /\ "nav" \notin evaluated
    /\ evaluated' = evaluated \cup {"nav"}
    /\ RegisterInitMapFunctions
    /\ last' = NoEvent
    /\ Quiet
    /\ UNCHANGED <<readyState, domListeners, mapCreated, mapLayers, camera,
                   flying, flyDest, locations, clipVars, genVars, popVars>>

\* The document is parsed: DOMContentLoaded runs its listeners.
DOMContentLoaded ==
    /\ readyState = "loading"
    /\ evaluated = {"map", "nav"}
    /\ readyState' = "interactive"
    /\ IF "init" \in domListeners
       THEN init
       ELSE UNCHANGED <<mapCreated, camera, mapLayers>>
    /\ last' = NoEvent
    /\ Quiet
    /\ UNCHANGED <<evaluated, domListeners, loadListeners, handlers, exposed,
                   initCalls, tileLayers, flying, flyDest, zoomIndicator,
                   locations, clipVars, genVars, popVars>>

\* The page is loaded: the load event runs its listeners.
Load ==
    /\ readyState = "interactive"
    /\ readyState' = "complete"
    /\ IF "initMapFunctions" \in loadListeners
       THEN initMapFunctions
       ELSE UNCHANGED <<initCalls, tileLayers, handlers, zoomIndicator, exposed>>
    /\ last' = NoEvent
    /\ Quiet
    /\ UNCHANGED <<evaluated, domListeners, loadListeners, mapCreated, mapLayers,
                   camera, flying, flyDest, locations, clipVars, genVars, popVars>>

\* The user picks base layer b in the layer control: the control attaches it
\* and detaches the other base layers.
LayerControlSelect(b) ==
    /\ mapCreated
    /\ mapLayers' = {b}
    /\ last' = NoEvent
    /\ Quiet
    /\ UNCHANGED <<loadVars, tileLayers, camera, flying, flyDest, zoomIndicator,
                   locations, clipVars, genVars, popVars>>

\* The user activates navigation link i: onclick="zoomToLocation(i)".  Before
\* the function is exposed the call is a ReferenceError.
NavLinkClick(i) ==
    /\ last' = [op |-> "navLink", id |-> i, inFlight |-> flying]
    /\ IF exposed
       THEN ZoomToLocation(i)
       ELSE /\ Quiet
            /\ UNCHANGED <<mapLayers, flyDest, flying, camera, zoomIndicator>>
    /\ UNCHANGED <<loadVars, tileLayers, locations, clipVars, genVars, popVars>>

\* A frame of the flyTo animation: the zoom passes through another level.
FlyFrame(z) ==
    /\ flying
    /\ camera' = [camera EXCEPT !.zoom = z]
    /\ last' = NoEvent
    /\ Quiet
    /\ UNCHANGED <<loadVars, mapLayers, tileLayers, flying, flyDest,
                   zoomIndicator, locations, clipVars, genVars, popVars>>

\* The flyTo animation ends at its target and fires zoomend.
FlySettle ==
    /\ flying
    /\ flying' = FALSE
    /\ camera' = flyDest[1]
    /\ FireZoomEnd(flyDest[1].zoom)
    /\ last' = NoEvent
    /\ Quiet
    /\ UNCHANGED <<loadVars, mapLayers, tileLayers, flyDest, locations,
                   clipVars, genVars, popVars>>

\* The user zooms the map (wheel, buttons) to level z: this stops a running
\* flyTo, and the zoom ends with zoomend.
UserZoom(z) ==
    /\ mapCreated
    /\ z # camera.zoom
    /\ flying' = FALSE
    /\ camera' = [camera EXCEPT !.zoom = z]
    /\ FireZoomEnd(z)
    /\ last' = NoEvent
    /\ Quiet
    /\ UNCHANGED <<loadVars, mapLayers, tileLayers, flyDest, locations,
                   clipVars, genVars, popVars>>

----------------------------------------------------------------------------
(* Specification of the page's navigation *)

\* create_map is not running.
GenIdle ==
    /\ bookmarks = <<>> /\ gi = 0 /\ features = <<>> /\ locations_js = <<>>
    /\ locations_js_str = <<>> /\ printed = <<>> /\ fetches = <<>>
    /\ genState = "idle" /\ nav_links = <<>>

\* create_bookmark_content is not under test.
PopIdle ==
    /\ popIn = <<>>
    /\ popOut = [called |-> FALSE, raised |-> FALSE, html |-> <<>>, fetched |-> <<>>]

PageInit ==
    /\ readyState = "loading"
    /\ evaluated = {}
    /\ domListeners = {}
    /\ loadListeners = {}
    /\ mapCreated = FALSE
    /\ mapLayers = {}
    /\ tileLayers = <<>>
    /\ handlers = {}
    /\ exposed = FALSE
    /\ initCalls = 0
    /\ camera = StartView
    /\ flying = FALSE
    /\ flyDest = <<>>
    /\ zoomIndicator = <<>>
    /\ last = NoEvent
    /\ errors = <<>>
    /\ calls = <<>>

Init ==
    /\ PageInit
    /\ locations \in LocationTables
    /\ writes = <<>> /\ alerts = <<>> /\ consoleLog = <<>> /\ clicks = 0
    /\ GenIdle
    /\ PopIdle

Next ==
    \/ EvalMapScript
    \/ EvalNavScript
    \/ DOMContentLoaded
    \/ Load
    \/ \E b \in RegisteredLayers : LayerControlSelect(b)
    \/ \E i \in DOMAIN locations : NavLinkClick(i)
    \/ \E z \in ZoomLevels : FlyFrame(z)
    \/ FlySettle
    \/ \E z \in ZoomLevels : UserZoom(z)

Spec == Init /\ [][Next]_vars

----------------------------------------------------------------------------
(* The page in the browser: copying the clicked coordinates *)

\* Places the user may click, in millionths of a degree.
ClickPoints == { [lat |-> 39543164, lng |-> -110389485],
                 [lat |-> -5, lng |-> 4] }

\* Number.toFixed(5) of u millionths: the nearest hundred-thousandth, a half
\* rounded away from zero; the result counts hundred-thousandths.
ToFixed5(u) ==
    LET a == IF u < 0 THEN 0 - u ELSE u
        n == (a + 5) \div 10
    IN IF u < 0 THEN 0 - n ELSE n

LatLngStr(e) == <<ToFixed5(e.lat), ", ", ToFixed5(e.lng)>>

\* onMapClick: start a clipboard write of the clicked coordinates; the
\* promise's two handlers are ClipboardFulfilled and ClipboardRejected.
OnMapClick(e) ==
    writes' = Append(writes, [text |-> LatLngStr(e), state |-> "pending"])

\* The user clicks the map at e.
MapClick(e) ==
    /\ mapCreated
    /\ clicks < MaxClicks
    /\ IF "click" \in handlers
       THEN /\ clicks' = clicks + 1
            /\ OnMapClick(e)
       ELSE UNCHANGED <<clicks, writes>>
    /\ last' = NoEvent
    /\ Quiet
    /\ UNCHANGED <<loadVars, mapVars, locations, alerts, consoleLog, genVars,
                   popVars>>

\* A rejection handler that only logs.
RejectedLogOnly(w) ==
    /\ consoleLog' = Append(consoleLog, [write |-> w, msg |-> "Could not copy text: "])
    /\ UNCHANGED alerts

\* The promise's fulfilment handler.
Fulfilled(w) ==
    /\ alerts' = Append(alerts,
           [write |-> w, kind |-> "copied",
            msg |-> <<"Coordinates ", writes[w].text, " copied to clipboard.">>])
    /\ UNCHANGED consoleLog

\* The promise's rejection handler.
Rejected(w) ==
    /\ consoleLog' = Append(consoleLog, [write |-> w, msg |-> "Could not copy text: "])
    /\ alerts' = Append(alerts,
           [write |-> w, kind |-> "failed",
            msg |-> <<"Could not copy coordinates to clipboard.">>])

\* Clipboard write w succeeds.
ClipboardFulfilled(w) ==
    /\ w \in 1 .. Len(writes)
    /\ writes[w].state = "pending"
    /\ writes' = [writes EXCEPT ![w].state = "fulfilled"]
    /\ Fulfilled(w)
    /\ last' = NoEvent
    /\ Quiet
    /\ UNCHANGED <<loadVars, mapVars, locations, clicks, genVars, popVars>>

\* Clipboard write w fails.
ClipboardRejected(w) ==
    /\ w \in 1 .. Len(writes)
    /\ writes[w].state = "pending"
    /\ writes' = [writes EXCEPT ![w].state = "rejected"]
    /\ Rejected(w)
    /\ last' = NoEvent
    /\ Quiet
    /\ UNCHANGED <<loadVars, mapVars, locations, clicks, genVars, popVars>>

\* A page without bookmarks.
ClipInit ==
    /\ PageInit
    /\ locations = <<>>
    /\ writes = <<>> /\ alerts = <<>> /\ consoleLog = <<>> /\ clicks = 0
    /\ GenIdle
    /\ PopIdle

ClipNext ==
    \/ EvalMapScript
    \/ EvalNavScript
    \/ DOMContentLoaded
    \/ Load
    \/ \E e \in ClickPoints : MapClick(e)
    \/ \E w \in 1 .. MaxClicks : ClipboardFulfilled(w)
    \/ \E w \in 1 .. MaxClicks : ClipboardRejected(w)

\* The browser settles every clipboard promise.
ClipSpec ==
    /\ ClipInit
    /\ [][ClipNext]_vars
    /\ \A w \in 1 .. MaxClicks :
          WF_vars(ClipboardFulfilled(w) \/ ClipboardRejected(w))

\* The animation of a flyTo runs to its end.
LiveSpec == Spec /\ WF_vars(FlySettle)

----------------------------------------------------------------------------
(* Claims about the page's navigation *)

\* The last event was a navigation request that reached zoomToLocation.
Navigated == last.op = "navLink" /\ exposed

TargetLayer == locations[last.id].tile_layer

Dest(i) == [lat |-> locations[i].lat, lon |-> locations[i].lon,
            zoom |-> locations[i].zoom]

\* C1: after zoomToLocation(i) for a bookmark whose tile layer is one of the
\* four registered ones, the tile layers attached to the map are exactly that
\* one layer.
C1_OnlyTargetLayerAttached ==
    (Navigated /\ TargetLayer \in RegisteredLayers) => mapLayers = {TargetLayer}

\* C2: after switching to a tile layer that is not registered, no tile layer
\* is attached to the map and exactly one diagnostic was logged.
C2_UnknownLayerLeavesNone ==
    (Navigated /\ TargetLayer \notin RegisteredLayers)
        => (mapLayers = {} /\ Len(errors) = 1)

\* C7: initMapFunctions runs at most once, only when the document is
\* complete and the map exists with its tile layers attached, it has run once
\* the document is complete, and before it has run no handler is bound and
\* zoomToLocation is not defined.
C7_InitDeferredUntilLoaded ==
    /\ initCalls <= 1
    /\ initCalls = 1 => (readyState = "complete" /\ mapCreated
                         /\ DOMAIN tileLayers # {})
    /\ readyState = "complete" => initCalls = 1
    /\ initCalls = 0 => (handlers = {} /\ ~exposed /\ zoomIndicator = <<>>)

C7_Witness ==
    initCalls = 1 /\ exposed /\ handlers = {"click", "zoomend"}

\* C8: right after a navigation request the target of the camera is the
\* anchor and zoom of the bookmark requested, also when the request arrived
\* during a flight, and the tile-layer calls come before the flyTo; nothing
\* but a navigation request changes the target; and a flight ends.
C8_LastWriterWins ==
    /\ [](Navigated =>
            /\ flyDest = <<Dest(last.id)>>
            /\ calls # <<>>
            /\ calls[Len(calls)] = "flyTo"
            /\ \A k \in 1 .. Len(calls) - 1 : calls[k] \in {"removeLayer", "addTo"})
    /\ [][flyDest' # flyDest => (last'.op = "navLink" /\ exposed)]_vars
    /\ (flying ~> ~flying)

C8_Witness ==
    /\ Navigated
    /\ last.inFlight
    /\ flyDest = <<Dest(last.id)>>
    /\ camera.lat # Dest(last.id).lat

\* C10: when the navigation module is active and no flight is under way, the
\* zoom indicator shows the map's zoom.
C10_IndicatorShowsZoom ==
    (exposed /\ ~flying) => zoomIndicator = <<"Zoom Level: ", camera.zoom>>

C10_Witness ==
    /\ exposed /\ ~flying
    /\ flyDest # <<>>
    /\ camera = flyDest[1]
    /\ camera.zoom # StartZoom
    /\ zoomIndicator = <<"Zoom Level: ", DefaultZoom>>

AlertsOf(w) == { k \in 1 .. Len(alerts) : alerts[k].write = w }
LogsOf(w) == { k \in 1 .. Len(consoleLog) : consoleLog[k].write = w }

\* C9: every click in the Active state has started one clipboard write of
\* the clicked coordinates; a settled write has exactly one alert, of the kind
\* of its outcome, with one logged diagnostic when it failed; a pending write
\* has none; and every write is settled in the end.
C9_EveryWriteAlertsOnce ==
    /\ [](/\ Len(writes) = clicks
          /\ \A w \in 1 .. Len(writes) :
                /\ \E e \in ClickPoints : writes[w].text = LatLngStr(e)
                /\ writes[w].state = "pending" =>
                       (AlertsOf(w) = {} /\ LogsOf(w) = {})
                /\ writes[w].state = "fulfilled" =>
                       (/\ Cardinality(AlertsOf(w)) = 1
                        /\ \A k \in AlertsOf(w) : alerts[k].kind = "copied"
                        /\ LogsOf(w) = {})
                /\ writes[w].state = "rejected" =>
                       (/\ Cardinality(AlertsOf(w)) = 1
                        /\ \A k \in AlertsOf(w) : alerts[k].kind = "failed"
                        /\ Cardinality(LogsOf(w)) = 1))
    /\ \A w \in 1 .. MaxClicks :
          (Len(writes) >= w) ~> (Len(writes) >= w /\ Cardinality(AlertsOf(w)) = 1)

\* Two writes were outstanding together and the later one failed first.
C9_Witness ==
    /\ Len(writes) >= 2
    /\ writes[1].state = "fulfilled"
    /\ writes[2].state = "rejected"
    /\ alerts # <<>>
    /\ alerts[1].write = 2

----------------------------------------------------------------------------
(* Generation: values *)

\* A string is a sequence of characters, '' is <<>>; a piece of template text
\* is one element.  A dict is a function on its keys; a missing key is out
\* of its domain.  None is <<>> where the code only tests truth.
EmptyDict == [k \in {} |-> k]

\* dict.get(k, default)
Get(d, k, default) == IF k \in DOMAIN d THEN d[k] ELSE default

Rat(n) == <<n, 1>>

RECURSIVE Sum(_)
Sum(q) == IF q = <<>> THEN 0 ELSE Head(q) + Sum(Tail(q))

\* sum(xs)/len(xs)
Mean(q) == <<Sum(q), Len(q)>>

\* A URL as urlparse splits it: hostname, the path split at '/', the v
\* parameter of the query (<<>> without one), and its text.
Url(hostname, path, v, href) ==
    [hostname |-> hostname, path |-> path, v |-> v, href |-> href]

\* What requests.get may do: answer 200 with a body, answer another status,
\* or raise (no connection).
Responses == {"ok", "notfound", "raise"}

Response(r) ==
    CASE r = "ok" -> [raises |-> FALSE, status_code |-> 200,
                      content_type |-> "image/png", content |-> "abc"]
      [] r = "notfound" -> [raises |-> FALSE, status_code |-> 404,
                            content_type |-> "text/html", content |-> ""]
      [] OTHER -> [raises |-> TRUE, status_code |-> 0,
                   content_type |-> "", content |-> ""]

\* base64.b64encode(...).decode('utf-8') of the bodies above.
B64(content) == IF content = "abc" THEN "YWJj" ELSE ""

----------------------------------------------------------------------------
(* Generation: the functions of map.py.  A function that may raise returns
   a record whose field raised says so. *)

\* fetch_image_data_uri: requests.get is not guarded, so what it raises
\* leaves the function.
fetch_image_data_uri(url, resp) ==
    IF resp.raises
    THEN [raised |-> TRUE, value |-> <<>>]
    ELSE IF resp.status_code = 200
         THEN [raised |-> FALSE,
               value |-> <<"data:", resp.content_type, ";base64,",
                           B64(resp.content)>>]
         ELSE [raised |-> FALSE, value |-> <<>>]

\* extract_youtube_video_id; the id is a sequence of path pieces, <<>> is None.
extract_youtube_video_id(url) ==
    IF url.hostname = "youtu.be"
    THEN Tail(url.path)
    ELSE IF url.hostname \in {"www.youtube.com", "youtube.com"}
         THEN IF url.path = <<"", "watch">>
              THEN url.v
              ELSE IF Len(url.path) >= 3 /\ url.path[1] = "" /\ url.path[2] = "embed"
                   THEN <<url.path[3]>>
                   ELSE <<>>
         ELSE <<>>

\* get_youtube_thumbnail_data_uri: [raised, value, fetched].
get_youtube_thumbnail_data_uri(video_url, resp) ==
    LET video_id == extract_youtube_video_id(video_url)
        thumbnail_url == Url("img.youtube.com",
                             <<"", "vi">> \o video_id \o <<"hqdefault.jpg">>, <<>>,
                             "https://img.youtube.com/vi/{video_id}/hqdefault.jpg")
    IN IF video_id # <<>>
       THEN LET f == fetch_image_data_uri(thumbnail_url, resp)
            IN [raised |-> f.raised, value |-> f.value, fetched |-> <<thumbnail_url>>]
       ELSE [raised |-> FALSE, value |-> <<>>, fetched |-> <<>>]

\* create_custom_icon: the icon name.
create_custom_icon(icon_type) ==
    CASE icon_type = "video" -> "video-camera"
      [] icon_type = "image" -> "camera"
      [] icon_type = "text" -> "align-left"
      [] OTHER -> "info-sign"

\* html.escape of a string: each character that is special becomes its entity.
HtmlEscape(str) ==
    [k \in 1 .. Len(str) |->
        CASE str[k] = "<" -> "&lt;"
          [] str[k] = "&" -> "&amp;"
          [] str[k] = ">" -> "&gt;"
          [] OTHER -> str[k]]

\* The fragment for text content with the given heading and paragraph.
TextFragment(heading, paragraph) ==
    <<"<div class=\"modal-content\">", "<h3>">> \o heading
    \o <<"</h3>", "<p>">> \o paragraph \o <<"</p>", "</div>">>

\* create_bookmark_content: [raised, html, fetched].  The f-strings put
\* title, text and url into the fragment as they are.
create_bookmark_content(content, resp) ==
    IF DOMAIN content = {}
    THEN [raised |-> FALSE, html |-> <<>>, fetched |-> <<>>]
    ELSE LET type == Get(content, "type", "None")
             title == Get(content, "title", <<>>)
         IN CASE type = "video" ->
                   LET t == get_youtube_thumbnail_data_uri(content.url, resp)
                   IN [raised |-> t.raised,
                       html |-> IF t.raised THEN <<>>
                                ELSE <<"<div class=\"modal-content\">", "<h3>">> \o title
                                     \o <<"</h3>", "<a href=\"", content.url.href,
                                          "\" target=\"_blank\">", "<img src=\"">>
                                     \o t.value \o <<"\" alt=\"">> \o title
                                     \o <<"\" style=\"max-width:100%;\">", "</a>",
                                          "<p>Click the image to watch the video.</p>",
                                          "</div>">>,
                       fetched |-> t.fetched]
              [] type = "image" ->
                   LET f == fetch_image_data_uri(content.url, resp)
                   IN [raised |-> f.raised,
                       html |-> IF f.raised THEN <<>>
                                ELSE <<"<div class=\"modal-content\">", "<h3>">> \o title
                                     \o <<"</h3>", "<img src=\"">> \o f.value
                                     \o <<"\" alt=\"">> \o title
                                     \o <<"\" style=\"max-width:100%;\">", "</div>">>,
                       fetched |-> <<content.url>>]
              [] type = "text" ->
                   [raised |-> FALSE,
                    html |-> TextFragment(title, Get(content, "text", <<>>)),
                    fetched |-> <<>>]
              [] OTHER -> [raised |-> FALSE, html |-> <<>>, fetched |-> <<>>]

\* The fallback center create_map passes down: [lat, lon].
Center == <<Rat(CenterLat), Rat(CenterLon)>>

\* An else branch that skips the bookmark without a word and anchors it at
\* the origin.
UnsupportedGeometrySilent(geom_type, center) ==
    [feature |-> <<>>, printed |-> <<>>, location |-> <<Rat(0), Rat(0)>>]

\* The else branch of add_bookmark_to_map: nothing is added, a line is
\* printed, the anchor is the center.
UnsupportedGeometry(geom_type, center) ==
    [feature |-> <<>>,
     printed |-> << <<"Unsupported geometry type: ", geom_type>> >>,
     location |-> center]

\* The popup of a line or polygon: the measure is appended to the content,
\* or stands alone under the title.
WithMeasure(popup_content, title, measure_str) ==
    IF popup_content # <<>>
    THEN popup_content \o <<"<p>">> \o measure_str \o <<"</p>">>
    ELSE <<"<div class='modal-content'><h3>">> \o title \o <<"</h3><p>">>
         \o measure_str \o <<"</p></div>">>

\* add_bookmark_to_map: [raised, feature, printed, fetched, entry].  The
\* measures of shapely and pyproj are not computed: N.NN stands for the number.
add_bookmark_to_map(bookmark, center, resp) ==
    LET geometry == Get(bookmark, "geometry", EmptyDict)
        geom_type == Get(geometry, "type", "None")
        coordinates == Get(geometry, "coordinates", <<>>)
        tile_layer == Get(bookmark, "tile_layer", "Positron")
        title == Get(bookmark, "title", <<"Untitled">>)
        content == Get(bookmark, "content", EmptyDict)
        pc == create_bookmark_content(content, resp)
        popup_content == pc.html
        shape ==
            CASE geom_type = "Point" ->
                   LET lon == coordinates[1]
                       lat == coordinates[2]
                   IN [feature |-> << [kind |-> "Marker", locations |-> << <<lat, lon>> >>,
                                       popup |-> popup_content,
                                       icon |-> create_custom_icon(
                                                    Get(content, "type", "info-sign")),
                                       tooltip |-> title] >>,
                       printed |-> <<>>,
                       location |-> <<Rat(lat), Rat(lon)>>]
              [] geom_type = "LineString" ->
                   LET latlngs == [k \in 1 .. Len(coordinates) |->
                                      <<coordinates[k][2], coordinates[k][1]>>]
                       length_str == <<"Length: ", "N.NN", " miles">>
                       mid_index == Len(latlngs) \div 2
                   IN [feature |-> << [kind |-> "PolyLine", locations |-> latlngs,
                                       popup |-> WithMeasure(popup_content, title,
                                                             length_str),
                                       icon |-> "", tooltip |-> title] >>,
                       printed |-> <<>>,
                       location |-> <<Rat(latlngs[mid_index + 1][1]),
                                      Rat(latlngs[mid_index + 1][2])>>]
              [] geom_type = "Polygon" ->
                   LET ring == coordinates[1]
                       latlngs == [k \in 1 .. Len(ring) |-> <<ring[k][2], ring[k][1]>>]
                       area_str == <<"Area: ", "N.NN", " square miles">>
                       lats == [k \in 1 .. Len(latlngs) |-> latlngs[k][1]]
                       lons == [k \in 1 .. Len(latlngs) |-> latlngs[k][2]]
                   IN [feature |-> << [kind |-> "Polygon", locations |-> latlngs,
                                       popup |-> WithMeasure(popup_content, title,
                                                             area_str),
                                       icon |-> "", tooltip |-> title] >>,
                       printed |-> <<>>,
                       location |-> <<Mean(lats), Mean(lons)>>]
              [] OTHER -> UnsupportedGeometry(geom_type, center)
    IN IF pc.raised
       THEN [raised |-> TRUE, feature |-> <<>>, printed |-> <<>>,
             fetched |-> pc.fetched,
             entry |-> [lat |-> Rat(0), lon |-> Rat(0), zoom |-> 0, tile_layer |-> ""]]
       ELSE [raised |-> FALSE, feature |-> shape.feature, printed |-> shape.printed,
             fetched |-> pc.fetched,
             entry |-> [lat |-> shape.location[1], lon |-> shape.location[2],
                        zoom |-> Get(bookmark, "zoom", DefaultZoom),
                        tile_layer |-> tile_layer]]

\* json.dumps of the index: the integer keys become strings.
JsonDumps(d) ==
    [key \in { ToString(i) : i \in DOMAIN d } |->
        d[CHOOSE i \in DOMAIN d : ToString(i) = key]]

\* Links numbered from one.
NavLinksFromOne(bms) ==
    [k \in 1 .. Len(bms) |->
        [onclick |-> <<"zoomToLocation(", ToString(k), "); return false;">>,
         text |-> bms[k].title]]

\* nav_links: one link per bookmark, enumerate() counting from 0.
NavLinks(bms) ==
    [k \in 1 .. Len(bms) |->
        [onclick |-> <<"zoomToLocation(", ToString(k - 1), "); return false;">>,
         text |-> bms[k].title]]

----------------------------------------------------------------------------
(* Generation: create_map *)

\* One round of create_map's loop over the bookmarks; r is what requests.get
\* does if the bookmark's content makes a request.
AddBookmark(r) ==
    /\ genState = "running"
    /\ gi < Len(bookmarks)
    /\ LET res == add_bookmark_to_map(bookmarks[gi + 1], Center, Response(r))
       IN /\ fetches' = fetches \o [k \in 1 .. Len(res.fetched) |->
                                       [url |-> res.fetched[k], resp |-> r, at |-> gi]]
          /\ IF res.raised
             THEN /\ genState' = "raised"
                  /\ UNCHANGED <<gi, features, locations_js, printed>>
             ELSE /\ features' = features \o res.feature
                  /\ printed' = printed \o res.printed
                  /\ locations_js' = (gi :> res.entry) @@ locations_js
                  /\ gi' = gi + 1
                  /\ UNCHANGED genState
    /\ UNCHANGED <<bookmarks, locations_js_str, nav_links, loadVars, mapVars,
                   locations, evtVars, clipVars, popVars>>

\* The rest of create_map: the index is serialized, the links are built, the
\* page is returned.  A bookmark without a title raises here.
CreateMapReturn ==
    /\ genState = "running"
    /\ gi = Len(bookmarks)
    /\ IF \A k \in 1 .. Len(bookmarks) : "title" \in DOMAIN bookmarks[k]
       THEN /\ locations_js_str' = JsonDumps(locations_js)
            /\ nav_links' = NavLinks(bookmarks)
            /\ genState' = "returned"
       ELSE /\ genState' = "raised"
            /\ UNCHANGED <<locations_js_str, nav_links>>
    /\ UNCHANGED <<bookmarks, gi, features, locations_js, printed, fetches,
                   loadVars, mapVars, locations, evtVars, clipVars, popVars>>

\* The bookmarks given: each has a title and one of four geometries; it has
\* content of one of five kinds and no zoom or tile_layer, or no content and
\* a zoom and tile_layer of its own.
GeomKinds == {"Point", "LineString", "Polygon", "Circle"}
ContentKinds == {"none", "text", "image", "video", "video-other"}
BookmarkIds ==
    (GeomKinds \X ContentKinds \X {"defaults"})
    \cup (GeomKinds \X {"none"} \X {"custom"})

Geometry(g) ==
    CASE g = "Point" -> [type |-> g, coordinates |-> <<-111, 40>>]
      [] g = "LineString" ->
           [type |-> g, coordinates |-> << <<-112, 38>>, <<-111, 39>>, <<-109, 41>> >>]
      [] g = "Polygon" ->
           [type |-> g,
            coordinates |-> << << <<-112, 38>>, <<-110, 38>>, <<-110, 41>>,
                                  <<-112, 38>> >> >>]
      [] OTHER -> [type |-> g, coordinates |-> <<-110, 39>>]

Content(c, title, text) ==
    CASE c = "text" -> [type |-> "text", title |-> title, text |-> text]
      [] c = "image" ->
           [type |-> "image", title |-> title,
            url |-> Url("example.org", <<"", "a.png">>, <<>>, "https://example.org/a.png")]
      [] c = "video" ->
           [type |-> "video", title |-> title,
            url |-> Url("youtu.be", <<"", "abc123">>, <<>>, "https://youtu.be/abc123")]
      [] c = "video-other" ->
           [type |-> "video", title |-> title,
            url |-> Url("vimeo.com", <<"", "abc123">>, <<>>, "https://vimeo.com/abc123")]
      [] OTHER -> EmptyDict

Bookmark(id) ==
    [title |-> <<id[1]>>, geometry |-> Geometry(id[1]),
     content |-> Content(id[2], <<"T">>, <<"h", "i">>)]
    @@ (IF id[3] = "custom"
        THEN [zoom |-> 5, tile_layer |-> "OpenStreetMap"]
        ELSE EmptyDict)

IdLists == UNION { [1 .. n -> BookmarkIds] : n \in 0 .. MaxBookmarks }

GenInit ==
    /\ PageInit
    /\ locations = <<>>
    /\ writes = <<>> /\ alerts = <<>> /\ consoleLog = <<>> /\ clicks = 0
    /\ PopIdle
    /\ \E ids \in IdLists : bookmarks = [k \in 1 .. Len(ids) |-> Bookmark(ids[k])]
    /\ gi = 0 /\ features = <<>> /\ locations_js = <<>> /\ locations_js_str = <<>>
    /\ printed = <<>> /\ fetches = <<>> /\ nav_links = <<>>
    /\ genState = "running"

GenNext ==
    \/ \E r \in Responses : AddBookmark(r)
    \/ CreateMapReturn

GenSpec == GenInit /\ [][GenNext]_vars

----------------------------------------------------------------------------
(* create_bookmark_content on its own *)

Alphabet == {"a", "<", "&"}
Strs == UNION { [1 .. n -> Alphabet] : n \in 0 .. MaxLen }

PopInit ==
    /\ PageInit
    /\ locations = <<>>
    /\ writes = <<>> /\ alerts = <<>> /\ consoleLog = <<>> /\ clicks = 0
    /\ GenIdle
    /\ \E c \in ContentKinds, title \in Strs, text \in Strs :
          popIn = Content(c, title, text)
    /\ popOut = [called |-> FALSE, raised |-> FALSE, html |-> <<>>, fetched |-> <<>>]

\* A call of create_bookmark_content(popIn); r is what requests.get does.
RenderPopup(r) ==
    /\ ~popOut.called
    /\ popOut' = [called |-> TRUE] @@ create_bookmark_content(popIn, Response(r))
    /\ UNCHANGED <<popIn, loadVars, mapVars, locations, evtVars, clipVars, genVars>>

PopNext == \E r \in Responses : RenderPopup(r)

PopSpec == PopInit /\ [][PopNext]_vars

----------------------------------------------------------------------------
(* Claims about the generation *)

\* C3: no failed fetch aborts the generation: create_map never ends by an
\* exception, whatever requests.get does.
C3_FetchFailureNeverAborts == genState # "raised"

\* The NavigationEntry add_bookmark_to_map returns for bookmark b.
EntryOf(b) == add_bookmark_to_map(b, Center, Response("ok")).entry

\* C4: the page create_map returns has one link per bookmark, in input order,
\* link i calls zoomToLocation(i) and carries bookmark i's title; the index
\* has the keys 0..n-1, and what the script finds under link i's argument is
\* the entry add_bookmark_to_map returned for bookmark i.
C4_LinksMatchIndex ==
    genState = "returned" =>
        LET n == Len(bookmarks)
        IN /\ Len(nav_links) = n
           /\ DOMAIN locations_js = 0 .. n - 1
           /\ DOMAIN locations_js_str = { ToString(i) : i \in 0 .. n - 1 }
           /\ \A i \in 0 .. n - 1 :
                 /\ nav_links[i + 1].onclick
                        = <<"zoomToLocation(", ToString(i), "); return false;">>
                 /\ nav_links[i + 1].text = bookmarks[i + 1].title
                 /\ locations_js[i] = EntryOf(bookmarks[i + 1])
                 /\ nav_links[i + 1].onclick[2] \in DOMAIN locations_js_str
                 /\ locations_js_str[nav_links[i + 1].onclick[2]]
                        = EntryOf(bookmarks[i + 1])

C4_Witness ==
    /\ genState = "returned"
    /\ Len(bookmarks) >= 2
    /\ bookmarks[1].geometry.type = "LineString"
    /\ bookmarks[2].geometry.type = "Polygon"
    /\ Len(nav_links) = Len(bookmarks)

Unsupported(b) ==
    Get(Get(b, "geometry", EmptyDict), "type", "None")
        \notin {"Point", "LineString", "Polygon"}

\* C5: a bookmark of unsupported geometry that add_bookmark_to_map has handled
\* has the entry of the fallback center with its own zoom and tile layer
\* (13 and Positron by default); it added no feature and printed one
\* diagnostic, so the features are those of the other bookmarks; the loop
\* goes on after it; and the generation ends by an exception only in a round
\* whose request raised.
C5_UnsupportedGeometrySkipped ==
    /\ [](\A k \in 1 .. gi :
             Unsupported(bookmarks[k]) =>
                 locations_js[k - 1]
                     = [lat |-> Rat(CenterLat), lon |-> Rat(CenterLon),
                        zoom |-> Get(bookmarks[k], "zoom", DefaultZoom),
                        tile_layer |-> Get(bookmarks[k], "tile_layer", "Positron")])
    /\ [](/\ Len(printed)
               = Cardinality({ k \in 1 .. gi : Unsupported(bookmarks[k]) })
          /\ Len(features)
               = Cardinality({ k \in 1 .. gi : ~Unsupported(bookmarks[k]) }))
    /\ [](genState = "raised" =>
             /\ fetches # <<>>
             /\ fetches[Len(fetches)].at = gi
             /\ fetches[Len(fetches)].resp = "raise")
    /\ [][(gi' = gi + 1 /\ Unsupported(bookmarks[gi + 1])) =>
             /\ features' = features
             /\ printed' = Append(printed, <<"Unsupported geometry type: ",
                                             bookmarks[gi + 1].geometry.type>>)
             /\ genState' = "running"]_vars

C5_Witness ==
    /\ genState = "returned"
    /\ Len(bookmarks) >= 2
    /\ Unsupported(bookmarks[1])
    /\ "zoom" \notin DOMAIN bookmarks[1]
    /\ bookmarks[2].geometry.type = "Point"
    /\ Len(features) = 1
    /\ Len(printed) = 1
    /\ locations_js[0].zoom = DefaultZoom
    /\ locations_js[0].tile_layer = "Positron"

\* C6: the fragment for text content carries the title and the text
\* HTML-escaped: no '<' or '&' of theirs is in it as it was given.
C6_TextPopupEscaped ==
    (popOut.called /\ Get(popIn, "type", "None") = "text") =>
        popOut.html = TextFragment(HtmlEscape(popIn.title), HtmlEscape(popIn.text))

====
